---- MODULE Spec2Model ----
(***************************************************************************)
(* Model of lib/review.py: the Review record type, its validated property  *)
(* setters, the class-level cache Review.all and the CRUD operations on    *)
(* the "reviews" table.                                                    *)
(*                                                                         *)
(* Encoding.  Instances live in a heap objs indexed by 1..MaxObj; the      *)
(* reference to "no instance" (Python None) is 0, and so is an unset id.   *)
(* A Python value handed to a setter is a tagged record (PyInt, PyStr,     *)
(* PyNone).  The cache Review.all is a dict; it is kept as the set of its  *)
(* <<key, instance>> items.  The reviews table is a function from the      *)
(* rowids in use to the row's columns.  An operation is an operator from   *)
(* the state to its outcome: the state it leaves, the value it returns and *)
(* the error it raises ("ok" when it returns); the actions apply them.     *)
(***************************************************************************)
EXTENDS Integers, Sequences, FiniteSets, TLC

\* ---- bounds -----------------------------------------------------------
MaxObj == 2          \* instances that can be constructed in one run
MaxId  == 2          \* largest rowid the table hands out

\* ---- program constants --------------------------------------------------
MinYear == 2000

None == 0
Obj  == 1..MaxObj
Ids  == 1..MaxId

\* ---- Python values ------------------------------------------------------
PyInt(n) == [t |-> "int", i |-> n, s |-> <<>>]
PyStr(x) == [t |-> "str", i |-> 0, s |-> x]
PyNone   == [t |-> "none", i |-> 0, s |-> <<>>]

EmployeeIds   == {1}
YearInputs    == {PyInt(1999), PyInt(2000), PyInt(2001), PyNone}
SummaryInputs == {PyStr(<<"a">>), PyStr(<<" ">>), PyStr(<<>>), PyInt(7)}
EmployeeInputs == {PyInt(1), PyInt(2), PyStr(<<"1">>)}

StoredYears     == {2000, 2001}
StoredSummaries == {<<"a">>}
RowValues == [year : StoredYears, summary : StoredSummaries,
              employee_id : EmployeeIds]

VARIABLES
    objs,         \* heap of Review instances
    all,          \* Review.all, as a set of <<key, instance>> items
    tableExists,  \* whether the reviews table exists
    rows,         \* the rows of the reviews table, by rowid
    employees     \* ids for which Employee.find_by_id returns an employee

vars == <<objs, all, tableExists, rows, employees>>

NoObj == [alive |-> FALSE, id |-> None, year |-> 0, summary |-> <<>>,
          employee_id |-> 0]

State == [objs |-> objs, all |-> all, tableExists |-> tableExists,
          rows |-> rows, employees |-> employees]

\* ---- results of a call --------------------------------------------------
Ok(S, r)      == [st |-> S, ret |-> r, list |-> <<>>, err |-> "ok"]
Raise(S, e)   == [st |-> S, ret |-> None, list |-> <<>>, err |-> e]
Then(R, F(_)) == IF R.err # "ok" THEN R ELSE F(R.st)

\* ---- Python helpers -----------------------------------------------------
IsSpace(c) == c = " "

RECURSIVE lstrip(_)
lstrip(x) == IF x # <<>> /\ IsSpace(Head(x)) THEN lstrip(Tail(x)) ELSE x

RECURSIVE rstrip(_)
rstrip(x) == IF x # <<>> /\ IsSpace(x[Len(x)])
             THEN rstrip(SubSeq(x, 1, Len(x) - 1)) ELSE x

strip(x) == rstrip(lstrip(x))

\* ---- the dict Review.all -----------------------------------------------
DictKeys(d)       == {p[1] : p \in d}
DictHas(d, k)     == k \in DictKeys(d)
DictGet(d, k)     == (CHOOSE p \in d : p[1] = k)[2]
DictSet_Append(d, k, v) == d \cup {<<k, v>>}
DictSet(d, k, v)  == {p \in d : p[1] # k} \cup {<<k, v>>}
DictDel(d, k)     == {p \in d : p[1] # k}

\* ---- Employee.find_by_id (collaborator) --------------------------------
Employee_find_by_id(S, value) == IF value \in S.employees THEN value ELSE None

\* ---- property setters ---------------------------------------------------
year_setter_Off(S, self, value) ==
    IF value.t # "int" THEN Raise(S, "ValueError")
    ELSE IF value.i <= MinYear THEN Raise(S, "ValueError")
    ELSE Ok([S EXCEPT !.objs[self].year = value.i], None)

year_setter(S, self, value) ==
    IF value.t # "int" THEN Raise(S, "ValueError")
    ELSE IF value.i < MinYear THEN Raise(S, "ValueError")
    ELSE Ok([S EXCEPT !.objs[self].year = value.i], None)

summary_setter(S, self, value) ==
    IF value.t # "str" THEN Raise(S, "ValueError")
    ELSE IF Len(strip(value.s)) = 0 THEN Raise(S, "ValueError")
    ELSE Ok([S EXCEPT !.objs[self].summary = value.s], None)

employee_id_setter(S, self, value) ==
    IF value.t # "int" THEN Raise(S, "ValueError")
    ELSE IF Employee_find_by_id(S, value.i) = None THEN Raise(S, "ValueError")
    ELSE Ok([S EXCEPT !.objs[self].employee_id = value.i], None)

\* ---- construction -------------------------------------------------------
FreeObjs(S) == {o \in Obj : ~S.objs[o].alive}
NewObj(S)   == CHOOSE o \in FreeObjs(S) : \A p \in FreeObjs(S) : o <= p

\* Review(year, summary, employee_id, id): a failed setter leaves no instance
init(S, year, summary, employee_id, id) ==
    IF FreeObjs(S) = {} THEN Raise(S, "HeapBound")
    ELSE LET self == NewObj(S)
             S0 == [S EXCEPT !.objs[self] = [NoObj EXCEPT !.alive = TRUE,
                                                          !.id = id]]
             R1 == year_setter(S0, self, year)
             R2 == Then(R1, LAMBDA T : summary_setter(T, self, summary))
             R3 == Then(R2, LAMBDA T : employee_id_setter(T, self, employee_id))
         IN  IF R3.err # "ok" THEN Raise(S, R3.err) ELSE Ok(R3.st, self)

\* ---- the reviews table --------------------------------------------------
SetMax(X) == CHOOSE m \in X : \A x \in X : x <= m

lastrowid_Count(S) == Cardinality(DOMAIN S.rows) + 1

\* rowid given to an inserted row (INTEGER PRIMARY KEY)
lastrowid(S) == IF DOMAIN S.rows = {} THEN 1 ELSE SetMax(DOMAIN S.rows) + 1

RowOf(S, self) == [year |-> S.objs[self].year,
                   summary |-> S.objs[self].summary,
                   employee_id |-> S.objs[self].employee_id]

Insert(f, k, r) == [x \in DOMAIN f \cup {k} |-> IF x = k THEN r ELSE f[x]]
Remove(f, k)    == [x \in DOMAIN f \ {k} |-> f[x]]

\* CREATE TABLE over a dropped one: starts with no rows
create_table_Fresh(S) == Ok([S EXCEPT !.tableExists = TRUE, !.rows = <<>>], None)

create_table(S) == Ok([S EXCEPT !.tableExists = TRUE], None)

\* leaves the cache as it is
drop_table_KeepCache(S) ==
    Ok([S EXCEPT !.tableExists = FALSE, !.rows = <<>>], None)

drop_table(S) ==
    Ok([S EXCEPT !.tableExists = FALSE, !.rows = <<>>, !.all = {}], None)

\* registers the instance before its id is assigned
save_KeyBeforeId(S, self) ==
    IF ~S.tableExists THEN Raise(S, "OperationalError")
    ELSE LET k  == lastrowid(S)
             S1 == [S EXCEPT !.rows = Insert(S.rows, k, RowOf(S, self))]
             S2 == [S1 EXCEPT !.all = DictSet(S1.all, S1.objs[self].id, self)]
         IN  Ok([S2 EXCEPT !.objs[self].id = k], self)

\* does not register the instance
save_NoCache(S, self) ==
    IF ~S.tableExists THEN Raise(S, "OperationalError")
    ELSE LET k  == lastrowid(S)
             S1 == [S EXCEPT !.rows = Insert(S.rows, k, RowOf(S, self))]
         IN  Ok([S1 EXCEPT !.objs[self].id = k], self)

save(S, self) ==
    IF ~S.tableExists THEN Raise(S, "OperationalError")
    ELSE LET k  == lastrowid(S)
             S1 == [S EXCEPT !.rows = Insert(S.rows, k, RowOf(S, self))]
             S2 == [S1 EXCEPT !.objs[self].id = k]
             S3 == [S2 EXCEPT !.all = DictSet(S2.all, S2.objs[self].id, self)]
         IN  Ok(S3, self)

create(S, year, summary, employee_id) ==
    LET R == init(S, year, summary, employee_id, None)
    IN  IF R.err # "ok" THEN R
        ELSE LET R2 == save(R.st, R.ret)
             IN  IF R2.err # "ok" THEN Raise(S, R2.err) ELSE R2

\* returns the cached instance as it is
instance_from_db_NoRefresh(S, row) ==
    IF row = <<>> THEN Ok(S, None)
    ELSE LET row_id == row[1]
         IN  IF DictHas(S.all, row_id)
             THEN Ok(S, DictGet(S.all, row_id))
             ELSE LET R == init(S, PyInt(row[2]), PyStr(row[3]), PyInt(row[4]), row_id)
                  IN  IF R.err # "ok" THEN R
                      ELSE Ok([R.st EXCEPT !.all = DictSet(R.st.all, row_id, R.ret)],
                              R.ret)

\* row is None or <<row_id, year, summary, employee_id>>
instance_from_db(S, row) ==
    IF row = <<>> THEN Ok(S, None)
    ELSE LET row_id == row[1]
         IN  IF DictHas(S.all, row_id)
             THEN LET inst == DictGet(S.all, row_id)
                      R1 == year_setter(S, inst, PyInt(row[2]))
                      R2 == Then(R1, LAMBDA T : summary_setter(T, inst, PyStr(row[3])))
                      R3 == Then(R2, LAMBDA T : employee_id_setter(T, inst, PyInt(row[4])))
                  IN  IF R3.err # "ok" THEN R3 ELSE Ok(R3.st, inst)
             ELSE LET R == init(S, PyInt(row[2]), PyStr(row[3]), PyInt(row[4]), row_id)
                  IN  IF R.err # "ok" THEN R
                      ELSE Ok([R.st EXCEPT !.all = DictSet(R.st.all, row_id, R.ret)],
                              R.ret)

RowTuple(S, k) == <<k, S.rows[k].year, S.rows[k].summary, S.rows[k].employee_id>>

\* SELECT ... WHERE id = ?, fetchone(): the row, or None
fetchone(S, id) == IF id \in DOMAIN S.rows THEN RowTuple(S, id) ELSE <<>>

\* always queries the table
find_by_id_NoCacheCheck(S, id) ==
    IF ~S.tableExists THEN Raise(S, "OperationalError")
    ELSE instance_from_db(S, fetchone(S, id))

find_by_id(S, id) ==
    IF DictHas(S.all, id) THEN Ok(S, DictGet(S.all, id))
    ELSE IF ~S.tableExists THEN Raise(S, "OperationalError")
    ELSE instance_from_db(S, fetchone(S, id))

\* no check of self.id
update_NoGuard(S, self) ==
    IF ~S.tableExists THEN Raise(S, "OperationalError")
    ELSE LET k  == S.objs[self].id
             S1 == IF k \in DOMAIN S.rows
                   THEN [S EXCEPT !.rows[k] = RowOf(S, self)] ELSE S
         IN  Ok([S1 EXCEPT !.all = DictSet(S1.all, k, self)], self)

update(S, self) ==
    IF S.objs[self].id = None THEN Raise(S, "ValueError")
    ELSE IF ~S.tableExists THEN Raise(S, "OperationalError")
    ELSE LET k  == S.objs[self].id
             S1 == IF k \in DOMAIN S.rows
                   THEN [S EXCEPT !.rows[k] = RowOf(S, self)] ELSE S
         IN  Ok([S1 EXCEPT !.all = DictSet(S1.all, k, self)], self)

\* leaves the cache entry
delete_KeepCache(S, self) ==
    IF S.objs[self].id = None THEN Ok(S, None)
    ELSE IF ~S.tableExists THEN Raise(S, "OperationalError")
    ELSE LET k  == S.objs[self].id
             S1 == [S EXCEPT !.rows = Remove(S.rows, k)]
         IN  Ok([S1 EXCEPT !.objs[self].id = None], None)

\* leaves self.id
delete_KeepId(S, self) ==
    IF S.objs[self].id = None THEN Ok(S, None)
    ELSE IF ~S.tableExists THEN Raise(S, "OperationalError")
    ELSE LET k  == S.objs[self].id
             S1 == [S EXCEPT !.rows = Remove(S.rows, k)]
         IN  IF DictHas(S1.all, k)
             THEN Ok([S1 EXCEPT !.all = DictDel(S1.all, k)], None)
             ELSE Ok(S1, None)

\* no check of self.id
delete_NoGuard(S, self) ==
    IF ~S.tableExists THEN Raise(S, "OperationalError")
    ELSE LET k  == S.objs[self].id
             S1 == [S EXCEPT !.rows = Remove(S.rows, k)]
             S2 == IF DictHas(S1.all, k)
                   THEN [S1 EXCEPT !.all = DictDel(S1.all, k)] ELSE S1
         IN  Ok([S2 EXCEPT !.objs[self].id = None], None)

delete(S, self) ==
    IF S.objs[self].id = None THEN Ok(S, None)
    ELSE IF ~S.tableExists THEN Raise(S, "OperationalError")
    ELSE LET k  == S.objs[self].id
             S1 == [S EXCEPT !.rows = Remove(S.rows, k)]
             S2 == IF DictHas(S1.all, k)
                   THEN [S1 EXCEPT !.all = DictDel(S1.all, k)] ELSE S1
         IN  Ok([S2 EXCEPT !.objs[self].id = None], None)

\* SELECT without ORDER BY on a rowid table: rows in rowid order
RECURSIVE SortedSeq(_)
SortedSeq(X) == IF X = {} THEN <<>>
                ELSE LET m == SetMax(X) IN Append(SortedSeq(X \ {m}), m)

fetchall(S) == [i \in 1..Cardinality(DOMAIN S.rows) |->
                   RowTuple(S, SortedSeq(DOMAIN S.rows)[i])]

\* [cls.instance_from_db(row) for row in rows]: stops at the first raise
RECURSIVE MapRows(_, _, _)
MapRows(S, rs, acc) ==
    IF rs = <<>> THEN [st |-> S, ret |-> None, list |-> acc, err |-> "ok"]
    ELSE LET R == instance_from_db(S, Head(rs))
         IN  IF R.err # "ok" THEN R
             ELSE MapRows(R.st, Tail(rs), Append(acc, R.ret))

get_all(S) ==
    IF ~S.tableExists THEN Raise(S, "OperationalError")
    ELSE MapRows(S, fetchall(S), <<>>)

\* ---- the state machine --------------------------------------------------
Commit(R) ==
    /\ R.err # "HeapBound"
    /\ objs' = R.st.objs
    /\ all' = R.st.all
    /\ tableExists' = R.st.tableExists
    /\ rows' = R.st.rows
    /\ employees' = R.st.employees

\* A fresh process: no instance, an empty cache, and whatever a previous
\* process left in the database file.
Init ==
    /\ objs = [o \in Obj |-> NoObj]
    /\ all = {}
    /\ tableExists \in BOOLEAN
    /\ \E D \in SUBSET Ids :
         /\ tableExists \/ D = {}
         /\ rows \in [D -> RowValues]
    /\ employees = EmployeeIds

\* Review(year, summary, employee_id): id keeps its default, None
Construct ==
    \E y \in YearInputs, s \in SummaryInputs, e \in EmployeeInputs :
        LET R == init(State, y, s, e, None)
        IN  /\ Commit(R)

Create ==
    \E y \in YearInputs, s \in SummaryInputs, e \in EmployeeInputs :
        LET R == create(State, y, s, e)
        IN  /\ R.err = "ok" => R.st.objs[R.ret].id <= MaxId
            /\ Commit(R)

SetYear ==
    \E self \in Obj, v \in YearInputs :
        /\ objs[self].alive
        /\ LET R == year_setter(State, self, v)
           IN  /\ Commit(R)

SetSummary ==
    \E self \in Obj, v \in SummaryInputs :
        /\ objs[self].alive
        /\ LET R == summary_setter(State, self, v)
           IN  /\ Commit(R)

SetEmployeeId ==
    \E self \in Obj, v \in EmployeeInputs :
        /\ objs[self].alive
        /\ LET R == employee_id_setter(State, self, v)
           IN  /\ Commit(R)

CreateTable ==
    LET R == create_table(State)
    IN  /\ Commit(R)

DropTable ==
    LET R == drop_table(State)
    IN  /\ Commit(R)

Save ==
    \E self \in Obj :
        /\ objs[self].alive
        /\ LET R == save(State, self)
           IN  /\ R.err = "ok" => R.st.objs[self].id <= MaxId
               /\ Commit(R)

FindById ==
    \E id \in Ids :
        LET R == find_by_id(State, id)
        IN  /\ Commit(R)

Update ==
    \E self \in Obj :
        /\ objs[self].alive
        /\ LET R == update(State, self)
           IN  /\ Commit(R)

Delete ==
    \E self \in Obj :
        /\ objs[self].alive
        /\ LET R == delete(State, self)
           IN  /\ Commit(R)

GetAll ==
    LET R == get_all(State)
    IN  /\ Commit(R)

\* the collaborator deletes an employee
EmployeeDelete ==
    \E e \in employees :
        /\ employees' = employees \ {e}
        /\ UNCHANGED <<objs, all, tableExists, rows>>

Next ==
    \/ Construct
    \/ Create
    \/ SetYear
    \/ SetSummary
    \/ SetEmployeeId
    \/ CreateTable
    \/ DropTable
    \/ Save
    \/ FindById
    \/ Update
    \/ Delete
    \/ GetAll
    \/ EmployeeDelete

Spec == Init /\ [][Next]_vars

\* the operations of a run that never removes a row
NextInsertOnly ==
    \/ Construct
    \/ Create
    \/ SetYear
    \/ SetSummary
    \/ SetEmployeeId
    \/ CreateTable
    \/ Save
    \/ FindById
    \/ Update
    \/ GetAll
    \/ EmployeeDelete

SpecInsertOnly == Init /\ [][NextInsertOnly]_vars

\* ---- properties ---------------------------------------------------------
Alive == {o \in Obj : objs[o].alive}
Saved == {o \in Alive : objs[o].id # None}

Matches(S, o, k) ==
    /\ k \in DOMAIN S.rows
    /\ S.rows[k].year = S.objs[o].year
    /\ S.rows[k].summary = S.objs[o].summary
    /\ S.rows[k].employee_id = S.objs[o].employee_id

\* a call that can be made in the current state, with its outcome; P holds
\* of every such call
Called(op, self, key, R) == [op |-> op, self |-> self, key |-> key, R |-> R]

ForAllCalls(P(_)) ==
    /\ \A y \in YearInputs, s \in SummaryInputs, e \in EmployeeInputs :
         /\ P(Called("construct", None, None, init(State, y, s, e, None)))
         /\ P(Called("create", None, None, create(State, y, s, e)))
    /\ \A r \in Alive :
         /\ \A v \in YearInputs :
               P(Called("set_year", r, None, year_setter(State, r, v)))
         /\ \A v \in SummaryInputs :
               P(Called("set_summary", r, None, summary_setter(State, r, v)))
         /\ \A v \in EmployeeInputs :
               P(Called("set_employee_id", r, None, employee_id_setter(State, r, v)))
         /\ P(Called("save", r, None, save(State, r)))
         /\ P(Called("update", r, None, update(State, r)))
         /\ P(Called("delete", r, None, delete(State, r)))
    /\ P(Called("create_table", None, None, create_table(State)))
    /\ P(Called("drop_table", None, None, drop_table(State)))
    /\ \A k \in Ids : P(Called("find_by_id", None, k, find_by_id(State, k)))
    /\ P(Called("get_all", None, None, get_all(State)))

StateNext == [objs |-> objs', all |-> all', tableExists |-> tableExists',
              rows |-> rows', employees |-> employees']

C2_SameObject ==
    [][\A k \in Ids : ForAllCalls(LAMBDA c :
         ( /\ StateNext = c.R.st
           /\ DictHas(all, k)
           /\ find_by_id(State, k).ret = DictGet(all, k)
           /\ c.op # "drop_table"
           /\ ~(c.op = "delete" /\ objs[c.self].id = k) )
         => find_by_id(StateNext, k).ret = DictGet(all, k))]_vars

\* C3: where the table exists, r.save() returns, and find_by_id of r's new id
\* then returns r itself without touching the state.
C3_SaveThenFind ==
    \A r \in Alive :
        tableExists =>
            LET R == save(State, r)
            IN  /\ R.err = "ok"
                /\ find_by_id(R.st, R.st.objs[r].id) = Ok(R.st, r)

\* an instance that was saved before is saved again and found
C3_Witness ==
    \E r \in Saved :
        /\ <<objs[r].id, r>> \in all
        /\ LET R == save(State, r)
           IN  /\ R.err = "ok"
               /\ R.st.objs[r].id # objs[r].id
               /\ find_by_id(R.st, R.st.objs[r].id).ret = r

\* C4: when r.delete() returns for an instance with id k, r.id is None, no
\* row and no cache entry has id k, and find_by_id(k) returns None.
C4_DeleteThenFind ==
    \A r \in Saved :
        LET k == objs[r].id
            R == delete(State, r)
        IN  R.err = "ok" =>
                /\ R.st.objs[r].id = None
                /\ k \notin DOMAIN R.st.rows
                /\ ~DictHas(R.st.all, k)
                /\ find_by_id(R.st, k) = Ok(R.st, None)

\* an instance whose row exists and is cached is deleted
C4_Witness ==
    \E r \in Saved :
        /\ objs[r].id \in DOMAIN rows
        /\ <<objs[r].id, r>> \in all
        /\ delete(State, r).err = "ok"
        /\ find_by_id(delete(State, r).st, objs[r].id).ret = None
        /\ DOMAIN delete(State, r).st.rows # {}

\* C5 (as stated): in a run without delete and drop_table, get_all returns
\* one instance per row, in row order, the i-th with the id, year, summary
\* and employee_id of the i-th row.
C5_GetAllPerRow ==
    tableExists =>
        LET R  == get_all(State)
            ks == SortedSeq(DOMAIN rows)
        IN  R.err = "ok" =>
                /\ Len(R.list) = Len(ks)
                /\ \A i \in 1..Len(R.list) :
                      /\ R.st.objs[R.list[i]].id = ks[i]
                      /\ Matches(R.st, R.list[i], ks[i])
                /\ \A i, j \in 1..Len(R.list) :
                      i # j => R.list[i] # R.list[j]

\* C6: update() on an instance without id raises ValueError and changes
\* neither the rows, the cache nor any instance.
C6_UpdateUnsaved ==
    \A r \in Alive :
        objs[r].id = None =>
            LET R == update(State, r)
            IN  /\ R.err = "ValueError"
                /\ R.st.rows = rows /\ R.st.all = all /\ R.st.objs = objs
                /\ R.st.tableExists = tableExists

\* an unsaved instance is updated while the table has rows and the cache
\* has entries
C6_Witness ==
    \E r \in Alive :
        /\ objs[r].id = None
        /\ rows # <<>> /\ all # {}
        /\ update(State, r).err = "ValueError"

\* C7: construction succeeds exactly on a valid year, summary and
\* employee_id, then with the fields equal to the inputs; otherwise it
\* raises ValueError, and create leaves the rows and the cache as they were.
ValidYear(v)       == v.t = "int" /\ v.i >= 2000
ValidSummary(v)    == v.t = "str" /\ \E i \in 1..Len(v.s) : v.s[i] # " "
ValidEmployeeId(v) == v.t = "int" /\ v.i \in employees

C7_ValidatedConstruction ==
    \A y \in YearInputs, s \in SummaryInputs, e \in EmployeeInputs :
        LET V == ValidYear(y) /\ ValidSummary(s) /\ ValidEmployeeId(e)
            R == init(State, y, s, e, None)
            C == create(State, y, s, e)
        IN  FreeObjs(State) # {} =>
              /\ R.err = "ok" <=> V
              /\ V => /\ R.st.objs[R.ret].year = y.i
                      /\ R.st.objs[R.ret].summary = s.s
                      /\ R.st.objs[R.ret].employee_id = e.i
                      /\ R.st.objs[R.ret].id = None
              /\ ~V => /\ R.err = "ValueError" /\ C.err = "ValueError"
                       /\ C.st.rows = rows /\ C.st.all = all
                       /\ C.st.objs = objs
              /\ (V /\ tableExists) =>
                      /\ C.err = "ok"
                      /\ Matches(C.st, C.ret, C.st.objs[C.ret].id)

\* with rows in the table and entries in the cache, one create is rejected
\* and another accepted
C7_Witness ==
    /\ FreeObjs(State) # {} /\ rows # <<>> /\ all # {}
    /\ create(State, PyInt(1999), PyStr(<<"a">>), PyInt(1)).err = "ValueError"
    /\ create(State, PyInt(2001), PyStr(<<"a">>), PyInt(1)).err = "ok"

\* C8 (as stated): an id is None from construction to the first save, and
\* once set no call changes it to a different value, except delete, which
\* sets it to None.
C8_SetOnce ==
    [][ForAllCalls(LAMBDA c :
         StateNext = c.R.st =>
            /\ (c.op = "construct" /\ c.R.err = "ok")
                  => objs'[c.R.ret].id = None
            /\ \A o \in Saved :
                  objs'[o].id # objs[o].id =>
                     (c.op = "delete" /\ c.self = o /\ objs'[o].id = None))
      ]_vars

\* C8 (amended): an instance constructed without id has id None until it is
\* saved; every save of it, the first and any further one, sets the id to the
\* id of the row that save inserts; delete sets it to None; no other call
\* changes it.
C8_Lifecycle ==
    ForAllCalls(LAMBDA c :
        /\ (c.op = "construct" /\ c.R.err = "ok")
              => c.R.st.objs[c.R.ret].id = None
        /\ \A o \in Alive :
              LET new == c.R.st.objs[o].id
              IN  /\ (c.op = "save" /\ c.self = o /\ c.R.err = "ok")
                        => new \in DOMAIN c.R.st.rows \ DOMAIN rows
                  /\ (c.op = "delete" /\ c.self = o /\ c.R.err = "ok")
                        => new = None
                  /\ ~(c.op \in {"save", "delete"} /\ c.self = o)
                        => new = objs[o].id)

\* a saved instance is saved once more, and a saved instance is deleted
C8_Witness ==
    \E o \in Saved :
        /\ save(State, o).err = "ok"
        /\ save(State, o).st.objs[o].id # objs[o].id
        /\ delete(State, o).err = "ok"
        /\ \E p \in Alive : objs[p].id = None

C10_SaveInserts ==
    \A r \in Alive :
        LET R == save(State, r)
            k == R.st.objs[r].id
        IN  R.err = "ok" =>
              /\ k # None /\ k \notin DOMAIN rows
              /\ DOMAIN R.st.rows = DOMAIN rows \cup {k}
              /\ \A j \in DOMAIN rows : R.st.rows[j] = rows[j]
              /\ R.st.rows[k] = RowOf(State, r)
              /\ R.st.objs[r] = [objs[r] EXCEPT !.id = k]
              /\ DictHas(R.st.all, k) /\ DictGet(R.st.all, k) = r
              /\ R.ret = r

\* an instance is saved into a table whose largest rowid is not its number
\* of rows
C10_Witness ==
    \E r \in Alive :
        /\ save(State, r).err = "ok"
        /\ DOMAIN rows # {}
        /\ Cardinality(DOMAIN rows) < SetMax(DOMAIN rows)

\* C11 (as stated): an update() that returns for an instance with id k leaves
\* a row with id k holding the instance's year, summary and employee_id,
\* leaves every other row and the number of rows as they were, leaves the
\* cache mapping k to the instance, and returns the instance.
C11_UpdateOverwrites ==
    [][\A r \in Saved :
         LET k == objs[r].id
             R == update(State, r)
         IN  (R.err = "ok" /\ StateNext = R.st) =>
               /\ k \in DOMAIN rows'
               /\ Matches(StateNext, r, k)
               /\ DOMAIN rows' = DOMAIN rows
               /\ \A j \in DOMAIN rows \ {k} : rows'[j] = rows[j]
               /\ DictHas(all', k) /\ DictGet(all', k) = r
               /\ R.ret = r
      ]_vars

\* C12: instance_from_db returns None for no row; for a row whose id is a
\* cache key it returns the cached instance, now with the row's year, summary
\* and employee_id, and leaves the cache as it was; for a row whose id is not
\* cached it returns a new instance with the row's id and values, registered
\* under that id.  Nothing else changes.
C12_InstanceFromDb ==
    /\ instance_from_db(State, <<>>) = Ok(State, None)
    /\ \A k \in Ids, v \in RowValues :
         LET R == instance_from_db(State, <<k, v.year, v.summary, v.employee_id>>)
             o == R.ret
         IN  R.err = "ok" =>
               /\ R.st.rows = rows /\ R.st.tableExists = tableExists
               /\ \A p \in Obj \ {o} : R.st.objs[p] = objs[p]
               /\ R.st.objs[o].year = v.year
               /\ R.st.objs[o].summary = v.summary
               /\ R.st.objs[o].employee_id = v.employee_id
               /\ IF DictHas(all, k)
                  THEN /\ o = DictGet(all, k)
                       /\ R.st.objs[o].id = objs[o].id
                       /\ R.st.all = all
                  ELSE /\ o \notin Alive
                       /\ R.st.objs[o].alive /\ R.st.objs[o].id = k
                       /\ R.st.all = all \cup {<<k, o>>}

\* a cached instance edited in memory is refreshed from its row, and an
\* uncached row gives a new instance
C12_Witness ==
    \E k \in DOMAIN rows, j \in DOMAIN rows :
        /\ DictHas(all, k) /\ ~DictHas(all, j)
        /\ objs[DictGet(all, k)].year # rows[k].year
        /\ instance_from_db(State, RowTuple(State, k)).err = "ok"
        /\ instance_from_db(State, RowTuple(State, k)).st.objs[DictGet(all, k)].year
               = rows[k].year
        /\ instance_from_db(State, RowTuple(State, j)).err = "ok"
        /\ instance_from_db(State, RowTuple(State, j)).ret \notin Alive

C14_DropThenCreate ==
    LET R == Then(drop_table(State), create_table)
    IN  /\ R.err = "ok"
        /\ R.st.tableExists /\ R.st.rows = <<>>
        /\ R.st.all = {}
        /\ get_all(R.st).err = "ok" /\ get_all(R.st).list = <<>>
        /\ \A k \in Ids : find_by_id(R.st, k) = Ok(R.st, None)

\* a table with rows and a cache with entries, dropped
C14_Witness ==
    /\ tableExists /\ DOMAIN rows # {} /\ all # {}
    /\ \E k \in DOMAIN rows : DictHas(all, k)
    /\ drop_table(State).st.all = {}
    /\ drop_table(State).st.rows = <<>>

\* C15: create_table on an existing table returns and leaves the rows, the
\* cache and every instance unchanged; in every state create_table twice
\* has the effect of create_table once.
C15_CreateTableIdempotent ==
    /\ tableExists => create_table(State) = Ok(State, None)
    /\ Then(create_table(State), create_table) = create_table(State)

\* create_table on a table that has rows and cached instances
C15_Witness ==
    /\ tableExists /\ DOMAIN rows # {} /\ all # {} /\ Alive # {}
    /\ create_table(State).err = "ok"
    /\ create_table(State).st.rows = rows

\* C16: delete() on an instance whose id is None returns None and leaves the
\* rows, the cache and every instance's fields unchanged, whether or not the
\* table exists.
C16_DeleteUnsaved ==
    \A r \in Alive \ Saved : delete(State, r) = Ok(State, None)

\* delete() on an unsaved instance next to saved, cached ones
C16_Witness ==
    \E r \in Alive \ Saved :
        /\ DOMAIN rows # {} /\ all # {}
        /\ delete(State, r).err = "ok"
        /\ delete(State, r).ret = None
        /\ delete(State, r).st.objs[r] = objs[r]

\* C17 (as stated): whenever the table exists, every key of the cache is the
\* id of a row of the table.
C17_CacheKeysAreRows ==
    tableExists => \A k \in DictKeys(all) : k \in DOMAIN rows

\* C18 (as stated): every cache entry is keyed by its instance's own id.
C18_KeyedByOwnId ==
    \A k \in DictKeys(all) : objs[DictGet(all, k)].id = k

\* C19 (as stated): a find_by_id or get_all that raises a validation error
\* leaves every instance with the year, summary and employee_id it had before
\* the call.  Stated of the outcome of the call made in the current state.
C19_RefreshAllOrNothing ==
    \A R \in {find_by_id(State, k) : k \in Ids} \cup {get_all(State)} :
        R.err = "ValueError" =>
           \A o \in Alive :
              /\ R.st.objs[o].year = objs[o].year
              /\ R.st.objs[o].summary = objs[o].summary
              /\ R.st.objs[o].employee_id = objs[o].employee_id

TypeOK ==
    /\ all \subseteq (({None} \cup Ids) \X Obj)
    /\ DOMAIN rows \subseteq Ids
    /\ employees \subseteq EmployeeIds
====
